---- MODULE Spec2Model ----
(***************************************************************************)
(* A model of mailbox_poll.py: a Telegram bot that, on a per-chat          *)
(* repeating timer, opens an IMAP session, searches the configured folder  *)
(* for unseen messages and forwards the text/plain body of each to the     *)
(* chat that set the timer.                                                *)
(*                                                                         *)
(* Commands are handled one at a time by the dispatcher; timer callbacks   *)
(* run on the job queue's worker threads, so a scan cycle is a sequence of *)
(* steps that interleaves with commands and with the cycle of another job. *)
(* One job never runs two cycles at once.                                  *)
(***************************************************************************)
EXTENDS Integers, Sequences, FiniteSets, TLC

VARIABLES
    storage,    \* the settings dictionary built in main()
    jobs,       \* the job queue: the set of scheduled (not removed) jobs
    cyc,        \* per job object: the state of its callback invocation
    mailbox,    \* the folder's messages: message id -> raw MIME parts
    seen,       \* message id -> the \Seen flag
    fwd,        \* message id -> how many times its body went to the sink
    reply,      \* the replies the most recent update produced
    boot        \* main() before it starts polling: where it is, and the
                \* session, server answer and typed line of the folder prompt

vars == <<storage, jobs, cyc, mailbox, seen, fwd, reply, boot>>

-----------------------------------------------------------------------------
(* Bounds of the model.                                                    *)

\* messages in the folder
NMsgs == 3

\* folders the server lists at the prompt
MaxFolders == 2

\* job objects that exist at once (scheduled, or removed and still running)
JobIds == {1, 2}
Msgs == 1..NMsgs
Chats == {1, 2}

-----------------------------------------------------------------------------
(* Texts.                                                                  *)

HiText == <<"Hi! Use /set <seconds> to set a timer">>
SorryText == <<"Sorry we can not go back to future!">>
UsageText == <<"Usage: /set <seconds>">>
SetText == <<"Timer successfully set!">>
SetOldText == <<"Timer successfully set! Old one was removed.">>
CancelledText == <<"Timer successfully cancelled!">>
NoTimerText == <<"You have no active timer.">>
NoReply == <<>>

-----------------------------------------------------------------------------
(* str() and int() on decimal numerals, as sequences of characters.        *)

DigitChr(d) == CASE d = 0 -> "0" [] d = 1 -> "1" [] d = 2 -> "2" [] d = 3 -> "3"
                 [] d = 4 -> "4" [] d = 5 -> "5" [] d = 6 -> "6" [] d = 7 -> "7"
                 [] d = 8 -> "8" [] d = 9 -> "9"

RECURSIVE StrNat(_)
StrNat(n) == IF n < 10 THEN <<DigitChr(n)>>
             ELSE StrNat(n \div 10) \o <<DigitChr(n % 10)>>

\* str(n)
Str(n) == IF n < 0 THEN <<"-">> \o StrNat(-n) ELSE StrNat(n)

IsDigit(c) == c \in {"0", "1", "2", "3", "4", "5", "6", "7", "8", "9"}
DigitVal(c) == CHOOSE d \in 0..9 : DigitChr(d) = c

RECURSIVE DigitsVal(_)
DigitsVal(s) == IF s = <<>> THEN 0
                ELSE 10 * DigitsVal(SubSeq(s, 1, Len(s) - 1)) + DigitVal(s[Len(s)])

AllDigits(s) == s # <<>> /\ \A i \in 1..Len(s) : IsDigit(s[i])

\* a parser that drops the sign
ParseInt_unsigned(tok) ==
    IF AllDigits(tok) THEN [err |-> "none", val |-> DigitsVal(tok)]
    ELSE IF tok # <<>> /\ tok[1] = "-" /\ AllDigits(Tail(tok))
         THEN [err |-> "none", val |-> DigitsVal(Tail(tok))]
         ELSE [err |-> "ValueError", val |-> 0]

\* int(tok): an optional "-", then one or more digits; anything else raises
\* ValueError
ParseInt(tok) ==
    IF AllDigits(tok) THEN [err |-> "none", val |-> DigitsVal(tok)]
    ELSE IF tok # <<>> /\ tok[1] = "-" /\ AllDigits(Tail(tok))
         THEN [err |-> "none", val |-> 0 - DigitsVal(Tail(tok))]
         ELSE [err |-> "ValueError", val |-> 0]

\* the argument lists an update can carry: none, or one token
Tokens == {<<"0">>, <<"1">>, <<"0", "1">>, <<"-", "0">>, <<"-", "1">>,
           <<"-">>, <<"a">>, <<"1", "a">>}
ArgLists == {<<>>} \cup {<<t>> : t \in Tokens}

\* int(context.args[0]), for each argument list
Intervals == [args \in ArgLists |->
                IF args = <<>> THEN [err |-> "IndexError", val |-> 0]
                ELSE ParseInt(args[1])]
IntervalOf(args) == Intervals[args]

-----------------------------------------------------------------------------
(* The mailbox: raw messages and their parsing.                            *)

Part(t, k, m) == [ctype |-> t, payload |-> [kind |-> k, of |-> m]]

\* the shapes of raw message the folder may hold
Raw(shape, m) ==
    CASE shape = "plain" -> <<Part("text/plain", "text", m)>>
      [] shape = "html"  -> <<Part("text/html", "html", m)>>
      [] shape = "alt"   -> <<Part("multipart/alternative", "parts", m),
                              Part("text/plain", "text", m),
                              Part("text/html", "html", m)>>

Shapes == {"alt", "html"}

\* { part.get_content_type(): part.get_payload() for part in msg.walk() }:
\* a later part of the same type overwrites an earlier one
ContentDict(raw) ==
    [t \in {raw[i].ctype : i \in DOMAIN raw} |->
        LET last == CHOOSE i \in DOMAIN raw :
                        /\ raw[i].ctype = t
                        /\ \A k \in DOMAIN raw : raw[k].ctype = t => k <= i
        IN raw[last].payload]

RECURSIVE Ascending(_)
Ascending(S) == IF S = {} THEN <<>>
                ELSE LET lo == CHOOSE x \in S : \A y \in S : x <= y
                     IN <<lo>> \o Ascending(S \ {lo})

\* a lookup with a default, d.get(key, ...), that never raises
Lookup_default(d, key) ==
    [err |-> "none",
     val |-> IF key \in DOMAIN d THEN d[key] ELSE [kind |-> "none", of |-> 0]]

\* email_message["text/plain"]: the payload, or KeyError
Lookup(d, key) == IF key \in DOMAIN d THEN [err |-> "none", val |-> d[key]]
                  ELSE [err |-> "KeyError", val |-> [kind |-> "none", of |-> 0]]

\* mail.search(None, '(UNSEEN)') answering OK; data[0].split()
SearchUnseen(flags) == Ascending({m \in Msgs : ~flags[m]})

\* mail.fetch(id, "(RFC822)") sets the \Seen flag of the message
FetchFlags(flags, id) == [flags EXCEPT ![id] = TRUE]

\* a report that carries a message of the folder instead of the status
StatusText_body == [kind |-> "text", of |-> 1]

\* the text sent for a search that did not answer OK
StatusText == [kind |-> "NO", of |-> 0]

-----------------------------------------------------------------------------
(* The job queue.                                                          *)

\* a lookup under another spelling of the name, which no job carries
get_jobs_by_name_other(name, q) == {job \in q : job.name = <<"#">> \o name}

\* context.job_queue.get_jobs_by_name(name)
get_jobs_by_name(name, q) == {job \in q : job.name = name}

\* a removal that reports the jobs it found and leaves them scheduled
remove_job_if_exists_kept(name, q) ==
    [removed |-> get_jobs_by_name(name, q) # {}, queue |-> q]

\* a removal that always reports that it found nothing
remove_job_if_exists_silent(name, q) ==
    [removed |-> FALSE, queue |-> q \ get_jobs_by_name(name, q)]

\* remove_job_if_exists(name, context): the queue afterwards, and the result
remove_job_if_exists(name, q) ==
    LET current_jobs == get_jobs_by_name(name, q)
    IN  [removed |-> current_jobs # {}, queue |-> q \ current_jobs]

\* a scheduling that drops the interval it is given
run_repeating_fixed(q, id, interval, chat_id, name) ==
    q \cup {[id |-> id, name |-> name, interval |-> 0, context |-> chat_id]}

\* context.job_queue.run_repeating(job, interval, context=chat_id, name=...)
run_repeating(q, id, interval, chat_id, name) ==
    q \cup {[id |-> id, name |-> name, interval |-> interval, context |-> chat_id]}

\* a queue that drops a job whose callback raised
Job_run_dropping(q, j, out) == IF out = "ok" THEN q ELSE {job \in q : job.id # j}

\* the queue after a run of job j's callback that ended `out`: an exception
\* is handed to the error handlers and the job stays as it was
Job_run(q, j, out) == q

Scheduled(j) == \E job \in jobs : job.id = j
JobOf(j) == CHOOSE job \in jobs : job.id = j

\* the identity of a new job object: that of no job scheduled when the
\* command arrived, and of no job whose callback is still running
FreeIds == {j \in JobIds : cyc[j].pc = "idle" /\ \A job \in jobs : job.id # j}
NewId == CHOOSE j \in FreeIds : \A k \in FreeIds : j <= k

\* a filter that lets every chat through
ChatFilter_any(chat) == chat \in Chats

\* str(chat_id), for each chat
Names == [chat \in Chats |-> Str(chat)]

\* Filters.chat(storage['chat'])
ChatFilter(chat) == chat = storage.chat

-----------------------------------------------------------------------------------------------------------------------------------------------------
(* The state of one callback invocation: imap_trace's wrapper around       *)
(* scan_email.                                                             *)

IdleCycle == [pc |-> "idle", conn |-> "none", ctx |-> 0, result |-> "none",
              ids |-> <<>>, fetched |-> <<>>, sent |-> <<>>, out |-> "none",
              rel |-> <<>>]

OpenFailures == {"ConnectionError", "AuthError"}

\* an opening that hides its failure from the wrapper
create_imap_connection_quiet(r) == [conn |-> "AUTH", out |-> "none"]

\* create_imap_connection(storage), by what the server does: the connection
\* is made first, the login comes second
create_imap_connection(r) ==
    CASE r = "ok"              -> [conn |-> "AUTH", out |-> "none"]
      [] r = "ConnectionError" -> [conn |-> "none", out |-> "ConnectionError"]
      [] r = "AuthError"       -> [conn |-> "NONAUTH", out |-> "AuthError"]

\* mail.select(storage['folder']): the state of the connection afterwards; an
\* answer other than OK is returned, not raised, and leaves no folder selected
select(ok) == IF ok THEN "SELECTED" ELSE "AUTH"

\* a client that lets SEARCH through in any state
Commands_SEARCH_any(conn) == conn \in {"AUTH", "SELECTED"}

\* mail.search: the client raises unless a folder is selected
Commands_SEARCH(conn) == conn = "SELECTED"

\* a finally block without the inner try: a failed close skips the logout
release_unguarded(conn) ==
    IF conn = "SELECTED"
    THEN <<[op |-> "close", ok |-> TRUE], [op |-> "logout", ok |-> TRUE]>>
    ELSE <<[op |-> "close", ok |-> FALSE]>>

\* the finally block of the wrapper: close (legal only with a folder
\* selected), its failure swallowed, then logout
release(conn) ==
    <<[op |-> "close", ok |-> conn = "SELECTED"], [op |-> "logout", ok |-> TRUE]>>

\* the wrapper once func has returned or raised `out`: the finally block runs
Finished(c, out) ==
    [c EXCEPT !.pc = "ret", !.out = out, !.rel = release(c.conn),
              !.conn = "LOGOUT"]

\* a sink that shows the newest message first
Sent_first(c, text) == <<[to |-> c.ctx, text |-> text]>> \o c.sent

\* context.bot.send_message(job.context, text=...)
Sent(c, text) == Append(c.sent, [to |-> c.ctx, text |-> text])

\* main() in its states before the prompt, and once it polls for updates
NoListing == [result |-> "none", lines |-> <<>>]
Booting == [pc |-> "args", conn |-> "none", listing |-> NoListing,
            asked |-> FALSE, line |-> <<>>, out |-> "none", rel |-> <<>>]
Polling == [Booting EXCEPT !.pc = "polling"]

\* the bot started with --folder given: it polls for updates with no timer
\* set
Init ==
    /\ storage = [chat |-> 1, folder |-> "INBOX"]
    /\ jobs = {}
    /\ cyc = [j \in JobIds |-> IdleCycle]
    /\ \E shape \in [Msgs -> Shapes] : mailbox = [m \in Msgs |-> Raw(shape[m], m)]
    /\ seen = [m \in Msgs |-> FALSE]
    /\ fwd = [m \in Msgs |-> 0]
    /\ reply = NoReply
    /\ boot = Polling

-----------------------------------------------------------------------------
(* Commands.                                                               *)

registry == <<storage, boot, jobs>>
scanning == <<cyc, mailbox, seen, fwd>>

\* an update the chat filter rejects reaches no handler
Ignored == reply' = NoReply /\ UNCHANGED <<registry, scanning>>

start(chat) == reply' = HiText /\ UNCHANGED <<registry, scanning>>

set_timer(chat, args) ==
    LET parsed == IntervalOf(args)
        r == remove_job_if_exists(Names[chat], jobs)
    IN  /\ IF parsed.err # "none"
           THEN reply' = UsageText /\ UNCHANGED jobs
           ELSE IF parsed.val < 0
           THEN reply' = SorryText /\ UNCHANGED jobs
           ELSE /\ FreeIds # {}
                /\ reply' = IF r.removed THEN SetOldText ELSE SetText
                /\ jobs' = run_repeating(r.queue, NewId, parsed.val,
                                         chat, Names[chat])
        /\ UNCHANGED <<storage, boot, scanning>>

unset(chat) ==
    LET r == remove_job_if_exists(Names[chat], jobs)
    IN  /\ jobs' = r.queue
        /\ reply' = IF r.removed THEN CancelledText ELSE NoTimerText
        /\ UNCHANGED <<storage, boot, scanning>>

CmdStart(chat) == IF ChatFilter(chat) THEN start(chat) ELSE Ignored
CmdHelp(chat) == IF ChatFilter(chat) THEN start(chat) ELSE Ignored
CmdSet(chat, args) == IF ChatFilter(chat) THEN set_timer(chat, args) ELSE Ignored
CmdUnset(chat) == IF ChatFilter(chat) THEN unset(chat) ELSE Ignored

-----------------------------------------------------------------------------
(* The timer callback: imap_trace(scan_email, storage).                    *)

others == <<storage, boot, jobs, reply>>

\* the job queue runs job j: the wrapper opens the connection
TimerFire(j, r) ==
    /\ Scheduled(j)
    /\ cyc[j].pc = "idle"
    /\ LET c == create_imap_connection(r)
       IN cyc' = [cyc EXCEPT ![j] =
                    [IdleCycle EXCEPT !.pc = IF c.out = "none" THEN "scan" ELSE "ret",
                                      !.conn = c.conn,
                                      !.out = c.out,
                                      !.ctx = JobOf(j).context]]
    /\ UNCHANGED <<others, mailbox, seen, fwd>>

\* scan_email up to the loop: select, search, and the report of a search
\* that did not answer OK (send_message is taken to succeed)
ScanStart(j, selOk, searchOk) ==
    /\ cyc[j].pc = "scan"
    /\ LET c == cyc[j]
           sel == [c EXCEPT !.conn = select(selOk)]
           ids == SearchUnseen(seen)
       IN  cyc' = [cyc EXCEPT ![j] =
              IF ~Commands_SEARCH(sel.conn)
              THEN \* select answered NO: the search raises
                   Finished(sel, "ImapError")
              ELSE IF searchOk
              THEN IF ids = <<>>
                   THEN Finished([sel EXCEPT !.result = "OK"], "ok")
                   ELSE [sel EXCEPT !.result = "OK", !.ids = ids, !.pc = "loop"]
              ELSE Finished([sel EXCEPT !.result = "NO",
                                        !.sent = Sent(c, StatusText)], "ok")]
    /\ UNCHANGED <<others, mailbox, seen, fwd>>

\* one iteration of the loop: fetch, parse, pick text/plain, send
ScanStep(j) ==
    /\ cyc[j].pc = "loop"
    /\ LET c == cyc[j]
           id == c.ids[Len(c.fetched) + 1]
           last == Len(c.fetched) + 1 = Len(c.ids)
           got == [c EXCEPT !.fetched = Append(@, id)]
           email_message == ContentDict(mailbox[id])
           result == Lookup(email_message, "text/plain")
       IN  /\ seen' = FetchFlags(seen, id)
           /\ IF result.err # "none"
              THEN /\ cyc' = [cyc EXCEPT ![j] = Finished(got, result.err)]
                   /\ UNCHANGED fwd
              ELSE LET done == [got EXCEPT !.sent = Sent(c, result.val)]
                   IN /\ cyc' = [cyc EXCEPT ![j] =
                                   IF last THEN Finished(done, "ok") ELSE done]
                      /\ fwd' = [fwd EXCEPT ![id] = @ + 1]
    /\ UNCHANGED <<others, mailbox>>

\* the wrapper returns or raises to the job queue, which logs and goes on
Return(j) ==
    /\ cyc[j].pc = "ret"
    /\ cyc' = [cyc EXCEPT ![j] = IdleCycle]
    /\ jobs' = Job_run(jobs, j, cyc[j].out)
    /\ UNCHANGED <<storage, boot, reply, mailbox, seen, fwd>>

Next ==
    \/ \E chat \in Chats : CmdStart(chat)
    \/ \E chat \in Chats : CmdHelp(chat)
    \/ \E chat \in Chats, args \in ArgLists : CmdSet(chat, args)
    \/ \E chat \in Chats : CmdUnset(chat)
    \/ \E j \in JobIds, r \in {"ok"} \cup OpenFailures : TimerFire(j, r)
    \/ \E j \in JobIds, selOk, searchOk \in BOOLEAN : ScanStart(j, selOk, searchOk)
    \/ \E j \in JobIds : ScanStep(j)
    \/ \E j \in JobIds : Return(j)

Spec == Init /\ [][Next]_vars

-----------------------------------------------------------------------------
(* The same program with a sink that may refuse a message, and a job queue *)
(* that keeps running what it has scheduled.                               *)

\* one iteration in which send_message raises: the message was fetched, so
\* it is seen, and the error ends scan_email
ScanStepSendFails(j) ==
    /\ cyc[j].pc = "loop"
    /\ LET c == cyc[j]
           id == c.ids[Len(c.fetched) + 1]
           got == [c EXCEPT !.fetched = Append(@, id)]
           result == Lookup(ContentDict(mailbox[id]), "text/plain")
       IN  /\ result.err = "none"
           /\ seen' = FetchFlags(seen, id)
           /\ cyc' = [cyc EXCEPT ![j] = Finished(got, "TelegramError")]
    /\ UNCHANGED <<others, mailbox, fwd>>

SinkNext ==
    \/ Next
    \/ \E j \in JobIds : ScanStepSendFails(j)

\* what the thread of job j does next
Cycle(j) ==
    \/ \E r \in {"ok"} \cup OpenFailures : TimerFire(j, r)
    \/ \E selOk, searchOk \in BOOLEAN : ScanStart(j, selOk, searchOk)
    \/ ScanStep(j)
    \/ ScanStepSendFails(j)
    \/ Return(j)

\* a scheduled job is run again and again, and a callback that runs goes on
\* to its end
Fairness == \A j \in JobIds : WF_vars(Cycle(j))

\* the folder of the retry scenario: message 2 has no text/plain part, every
\* other message has one
SinkInit ==
    /\ storage = [chat |-> 1, folder |-> "INBOX"]
    /\ jobs = {}
    /\ cyc = [j \in JobIds |-> IdleCycle]
    /\ mailbox = [m \in Msgs |-> Raw(IF m = 2 THEN "html" ELSE "alt", m)]
    /\ seen = [m \in Msgs |-> FALSE]
    /\ fwd = [m \in Msgs |-> 0]
    /\ reply = NoReply
    /\ boot = Polling

FairSpec == SinkInit /\ [][SinkNext]_vars /\ Fairness

-----------------------------------------------------------------------------
(* main() when --folder is omitted: the folder prompt.                     *)

None == "None"
FolderNames == {"INBOX", "Work"}

\* a line of the LIST answer: the hierarchy delimiter the server uses and the
\* folder name, as in  (\HasNoChildren) "/" Work
Delims == {"/", "."}
FolderLines == [delim : Delims, name : FolderNames]
FolderLists == UNION {[1..n -> FolderLines] : n \in 0..MaxFolders}

\* mail.list(): a status and the lines
Listings == {[result |-> "NO", lines |-> <<>>]}
                \cup {[result |-> "OK", lines |-> fs] : fs \in FolderLists}

\* what may be typed at the prompt
PromptLines == {<<>>, <<"0">>, <<"1">>, <<"2">>, <<"3">>, <<"-", "1">>,
                <<"a">>, <<"1", "a">>}

\* f.decode().split(' "/" '): two pieces when the delimiter is "/", else one
Split(f) == IF f.delim = "/" THEN <<"flags", f.name>> ELSE <<"line">>

\* enum_folders as the loop builds it: number -> l[1], or the IndexError of
\* the first line that does not split in two
enum_folders(listing) ==
    IF listing.result # "OK" THEN [err |-> "none", val |-> <<>>]
    ELSE IF \E i \in DOMAIN listing.lines : Len(Split(listing.lines[i])) < 2
         THEN [err |-> "IndexError", val |-> <<>>]
         ELSE [err |-> "none",
               val |-> [i \in DOMAIN listing.lines |-> Split(listing.lines[i])[2]]]

\* select_email_folder(mail, storage) with `line` typed at the prompt:
\* whether the prompt was reached, the error raised, and the folder stored
select_email_folder(listing, line) ==
    LET e == enum_folders(listing)
        n == ParseInt(line)
    IN  IF e.err # "none"
        THEN [asked |-> FALSE, err |-> e.err, folder |-> None]
        ELSE IF n.err # "none"
        THEN [asked |-> TRUE, err |-> n.err, folder |-> None]
        ELSE [asked |-> TRUE, err |-> "none",
              folder |-> IF n.val \in DOMAIN e.val THEN e.val[n.val] ELSE "INBOX"]

\* the arguments are parsed: --folder was given, or was not
StartupInit ==
    /\ storage \in [chat : {1}, folder : {None} \cup FolderNames]
    /\ jobs = {}
    /\ cyc = [j \in JobIds |-> IdleCycle]
    /\ \E shape \in [Msgs -> Shapes] : mailbox = [m \in Msgs |-> Raw(shape[m], m)]
    /\ seen = [m \in Msgs |-> FALSE]
    /\ fwd = [m \in Msgs |-> 0]
    /\ reply = NoReply
    /\ boot = Booting

running == <<jobs, cyc, mailbox, seen, fwd, reply>>

\* --folder was given: no prompt, main() goes on to poll
BootSkip ==
    /\ boot.pc = "args"
    /\ storage.folder # None
    /\ boot' = [boot EXCEPT !.pc = "polling"]
    /\ UNCHANGED <<storage, running>>

\* --folder was omitted: the wrapper opens the session for the prompt
BootOpen(r) ==
    /\ boot.pc = "args"
    /\ storage.folder = None
    /\ LET c == create_imap_connection(r)
       IN boot' = [boot EXCEPT !.pc = IF c.out = "none" THEN "list" ELSE "crashed",
                               !.conn = c.conn,
                               !.out = c.out]
    /\ UNCHANGED <<storage, running>>

\* select_email_folder runs, returns or raises, and the finally block
\* releases the session
BootList(listing, line) ==
    /\ boot.pc = "list"
    /\ LET r == select_email_folder(listing, line)
       IN  /\ storage' = IF r.err = "none"
                         THEN [storage EXCEPT !.folder = r.folder]
                         ELSE storage
           /\ boot' = [boot EXCEPT !.pc = "ret",
                                   !.listing = listing,
                                   !.asked = r.asked,
                                   !.line = IF r.asked THEN line ELSE <<>>,
                                   !.out = IF r.err = "none" THEN "ok" ELSE r.err,
                                   !.rel = release(boot.conn),
                                   !.conn = "LOGOUT"]
    /\ UNCHANGED running

\* the wrapper returns and main() goes on to poll, or it raises and main()
\* ends with the traceback
BootReturn ==
    /\ boot.pc = "ret"
    /\ boot' = [boot EXCEPT !.pc = IF boot.out = "ok" THEN "polling" ELSE "crashed"]
    /\ UNCHANGED <<storage, running>>

StartupNext ==
    \/ BootSkip
    \/ \E r \in {"ok"} \cup OpenFailures : BootOpen(r)
    \/ \E listing \in Listings, line \in PromptLines : BootList(listing, line)
    \/ BootReturn

Startup == StartupInit /\ [][StartupNext]_vars

-----------------------------------------------------------------------------
(* The timer registry and the commands.                                    *)

ChatName == [chat \in Chats |-> Str(chat)]
TimersOf(chat, q) == {job \in q : job.name = ChatName[chat]}

\* the arguments of /set by what they spell
NegativeArgs == {<<<<"-", "1">>>>}
NonNumericArgs == {<<<<"-">>>>, <<<<"a">>>>, <<<<"1", "a">>>>}
AbsentArgs == {<<>>}
NaturalArgs == {<<<<"0">>>>, <<<<"1">>>>, <<<<"0", "1">>>>, <<<<"-", "0">>>>}
Spelled(args) == CASE args \in {<<<<"0">>>>, <<<<"-", "0">>>>} -> 0
                   [] args \in {<<<<"1">>>>, <<<<"0", "1">>>>} -> 1

\* C1: in every reachable state the job queue holds at most one scheduled
\* timer per chat identifier.
C1_AtMostOneTimerPerChat ==
    \A chat \in Chats : Cardinality(TimersOf(chat, jobs)) <= 1

\* a /set has replaced a timer: one timer is scheduled
C1_Witness == reply = SetOldText /\ Cardinality(TimersOf(storage.chat, jobs)) = 1

\* C2: a /set n (n >= 0) dispatched for chat k leaves exactly one timer for
\* k, of interval n; every timer k had before is no longer scheduled; and a
\* callback only ever starts for a job that is scheduled, so a replaced
\* timer starts no further cycle.
C2_SetReplaces ==
    [][ /\ \A chat \in Chats, args \in NaturalArgs :
             (ChatFilter(chat) /\ CmdSet(chat, args)) =>
                 /\ Cardinality(TimersOf(chat, jobs')) = 1
                 /\ \A job \in TimersOf(chat, jobs') : job.interval = Spelled(args)
                 /\ TimersOf(chat, jobs) \cap jobs' = {}
        /\ \A j \in JobIds :
             (cyc[j].pc = "idle" /\ cyc'[j].pc # "idle") =>
                 \E job \in jobs : job.id = j
      ]_vars

\* a timer of interval 1 has replaced one whose cycle is still in flight
C2_Witness ==
    /\ reply = SetOldText
    /\ \E job \in jobs : job.interval = 1 /\ cyc[job.id].pc = "idle"
    /\ \E j \in JobIds : cyc[j].pc = "loop" /\ \A job \in jobs : job.id # j

\* C3: an /unset that follows a successful /set leaves the chat no timer;
\* an /unset that follows an /unset answers 'You have no active timer.' and
\* leaves the queue as it was.
C3_SetUnsetUnset ==
    [][ \A chat \in Chats :
          (ChatFilter(chat) /\ CmdUnset(chat)) =>
              /\ reply \in {SetText, SetOldText} =>
                    TimersOf(chat, jobs') = {} /\ reply' = CancelledText
              /\ reply \in {CancelledText, NoTimerText} =>
                    reply' = NoTimerText /\ jobs' = jobs
      ]_vars

\* a timer was set (its cycle is still in flight), it was unset, and a later
\* /unset found nothing
C3_Witness ==
    /\ reply = NoTimerText
    /\ jobs = {}
    /\ \E j \in JobIds : cyc[j].pc # "idle"

\* C4: a /set whose argument is a negative integer, not a number, or absent
\* changes nothing but the reply, which is one message: the refusal for a
\* negative integer, the usage line otherwise.
C4_InvalidSetUnchanged ==
    [][ \A chat \in Chats, args \in NegativeArgs \cup NonNumericArgs \cup AbsentArgs :
          (ChatFilter(chat) /\ CmdSet(chat, args)) =>
              /\ UNCHANGED <<storage, jobs, cyc, mailbox, seen, fwd>>
              /\ Len(reply') = 1
              /\ reply' = IF args \in NegativeArgs THEN SorryText ELSE UsageText
      ]_vars

\* a negative interval was refused while a timer was scheduled
C4_Witness == reply = SorryText /\ jobs # {}

\* C5: a command from a chat other than the configured one produces no
\* reply and changes neither the queue, nor a cycle, nor the mailbox.
C5_OtherChatIgnored ==
    [][ \A chat \in Chats \ {storage.chat} :
          (\/ CmdStart(chat) \/ CmdHelp(chat) \/ CmdUnset(chat)
           \/ \E args \in ArgLists : CmdSet(chat, args)) =>
              /\ reply' = NoReply
              /\ UNCHANGED <<storage, jobs, cyc, mailbox, seen, fwd>>
      ]_vars

\* an update of another chat went unanswered while a timer was scheduled
C5_Witness == reply = NoReply /\ jobs # {}

-----------------------------------------------------------------------------
(* The mailbox session and the scan cycle.                                 *)

NoPlain(m) == \A i \in DOMAIN mailbox[m] : mailbox[m][i].ctype # "text/plain"
PlainBody(m) == [kind |-> "text", of |-> m]
Texts(sent) == [i \in DOMAIN sent |-> sent[i].text]
FirstNoPlain(ids) == CHOOSE i \in 1..Len(ids) :
                        NoPlain(ids[i]) /\ \A k \in 1..(i - 1) : ~NoPlain(ids[k])

\* C6: an invocation that opened its session, whether scan_email returned or
\* raised, has by its end attempted close once and then logout once, in that
\* order, and not before; a failed close is not what the invocation raises.
C6_CloseThenLogout ==
    \A j \in JobIds :
        LET c == cyc[j] IN
        /\ (c.pc = "ret" /\ c.out \notin OpenFailures) =>
              /\ Len(c.rel) = 2
              /\ c.rel[1].op = "close" /\ c.rel[2].op = "logout"
              /\ c.out \in {"ok", "KeyError", "ImapError"}
        /\ c.pc \in {"scan", "loop"} => c.rel = <<>>

\* scan_email raised, the close failed, and the logout was still attempted
C6_Witness ==
    \E j \in JobIds :
        /\ cyc[j].pc = "ret" /\ cyc[j].out = "ImapError"
        /\ cyc[j].rel = <<[op |-> "close", ok |-> FALSE], [op |-> "logout", ok |-> TRUE]>>

\* C7: when an invocation returns or raises, the connection it created, if
\* any, has been logged out.
C7_ReleasedBeforeReturn ==
    \A j \in JobIds : cyc[j].pc = "ret" => cyc[j].conn \in {"none", "LOGOUT"}

C9_NoLoss ==
    \A j \in JobIds :
        LET c == cyc[j] IN
        (c.pc = "ret" /\ c.result = "OK") =>
            /\ \A i \in 1..Len(c.ids) : fwd[c.ids[i]] > 0 \/ ~seen[c.ids[i]]
            /\ Len(c.sent) <= Len(c.ids)
            /\ Texts(c.sent) = [i \in 1..Len(c.sent) |-> PlainBody(c.ids[i])]

\* C10: no message is forwarded to the sink more than once.
C10_ForwardedAtMostOnce == \A m \in Msgs : fwd[m] <= 1

\* C11: a cycle whose search answered other than OK fetches nothing and sends
\* one message, to its chat, whose text is that status and holds nothing of
\* the folder.
C11_SearchStatusReported ==
    \A j \in JobIds :
        LET c == cyc[j] IN
        (c.result # "none" /\ c.result # "OK") =>
            /\ c.pc = "ret"
            /\ c.ids = <<>> /\ c.fetched = <<>>
            /\ Len(c.sent) = 1
            /\ c.sent[1].to = c.ctx
            /\ c.sent[1].text = [kind |-> c.result, of |-> 0]

\* the search answered NO while a message was unseen: the status was sent
C11_Witness ==
    \E j \in JobIds :
        /\ cyc[j].pc = "ret" /\ cyc[j].result = "NO"
        /\ Len(cyc[j].sent) = 1
        /\ \E m \in Msgs : ~seen[m]

\* C12: a cycle that ends without error has sent exactly the text/plain
\* bodies of the identifiers its search returned, one message each, in the
\* order of the search; and while it runs, every identifier fetched so far
\* has had its body sent before the next one is fetched.
C12_BodiesInOrder ==
    \A j \in JobIds :
        LET c == cyc[j] IN
        /\ (c.pc = "ret" /\ c.out = "ok" /\ c.result = "OK") =>
              /\ c.fetched = c.ids
              /\ Texts(c.sent) = [i \in 1..Len(c.ids) |-> PlainBody(c.ids[i])]
              /\ \A i \in 1..Len(c.ids) :
                    Lookup(ContentDict(mailbox[c.ids[i]]), "text/plain").val
                        = c.sent[i].text
        /\ c.pc = "loop" =>
              /\ c.fetched = SubSeq(c.ids, 1, Len(c.fetched))
              /\ Texts(c.sent) = [i \in 1..Len(c.fetched) |-> PlainBody(c.fetched[i])]

\* three unseen messages were forwarded by one cycle, in the order 1, 2, 3
C12_Witness ==
    \E j \in JobIds :
        /\ cyc[j].pc = "ret" /\ cyc[j].out = "ok"
        /\ cyc[j].ids = <<1, 2, 3>>
        /\ Texts(cyc[j].sent) = <<PlainBody(1), PlainBody(2), PlainBody(3)>>

\* C14: the reply tells what the queue held when the command arrived: a /set
\* that schedules a timer answers 'Timer successfully set! Old one was
\* removed.' if the chat had a timer and 'Timer successfully set!' if it had
\* none; an /unset answers 'Timer successfully cancelled!' if the chat had a
\* timer and 'You have no active timer.' if it had none.
C14_ReplyTellsPriorTimer ==
    [][ \A chat \in Chats :
          ChatFilter(chat) =>
              /\ \A args \in NaturalArgs :
                    CmdSet(chat, args) =>
                        reply' = IF TimersOf(chat, jobs) # {}
                                 THEN <<"Timer successfully set! Old one was removed.">>
                                 ELSE <<"Timer successfully set!">>
              /\ CmdUnset(chat) =>
                    reply' = IF TimersOf(chat, jobs) # {}
                             THEN <<"Timer successfully cancelled!">>
                             ELSE <<"You have no active timer.">>
      ]_vars

\* an /unset found no timer, after a cycle of an earlier timer had ended
C14_Witness ==
    /\ reply = NoTimerText
    /\ jobs = {}
    /\ \E j \in JobIds : cyc[j].pc = "ret" /\ cyc[j].out = "ok"

\* C16: when the folder cannot be selected the cycle ends there with an
\* error: no answer of a search is processed, nothing is fetched, nothing is
\* sent, no flag changes; the step touches neither the queue nor the other
\* cycle; and the session is released (close, which fails with no folder
\* selected, then logout).
C16_SelectFailureEndsCycle ==
    [][ \A j \in JobIds, searchOk \in BOOLEAN :
          ScanStart(j, FALSE, searchOk) =>
              /\ cyc'[j].pc = "ret" /\ cyc'[j].out = "ImapError"
              /\ cyc'[j].result = "none"
              /\ cyc'[j].ids = <<>> /\ cyc'[j].fetched = <<>> /\ cyc'[j].sent = <<>>
              /\ cyc'[j].rel = <<[op |-> "close", ok |-> FALSE],
                                 [op |-> "logout", ok |-> TRUE]>>
              /\ UNCHANGED <<storage, jobs, reply, mailbox, seen, fwd>>
              /\ \A k \in JobIds \ {j} : cyc'[k] = cyc[k]
      ]_vars

\* a selection failed while the timer stayed scheduled and messages were
\* unseen
C16_Witness ==
    \E j \in JobIds :
        /\ cyc[j].pc = "ret" /\ cyc[j].out = "ImapError"
        /\ cyc[j].sent = <<>>
        /\ Scheduled(j)
        /\ \E m \in Msgs : ~seen[m]

\* C19: when opening the session fails, in the connection or in the login,
\* the cycle ends at once with that error: it is opened once, nothing is
\* selected, searched, fetched or sent, no flag changes, nothing is released,
\* and the queue is as it was.
C19_OpenFailureEndsCycle ==
    [][ \A j \in JobIds, r \in OpenFailures :
          TimerFire(j, r) =>
              /\ cyc'[j].pc = "ret" /\ cyc'[j].out = r
              /\ cyc'[j].conn \in {"none", "NONAUTH"}
              /\ cyc'[j].result = "none"
              /\ cyc'[j].ids = <<>> /\ cyc'[j].fetched = <<>> /\ cyc'[j].sent = <<>>
              /\ cyc'[j].rel = <<>>
              /\ UNCHANGED <<storage, jobs, reply, mailbox, seen, fwd>>
              /\ \A k \in JobIds \ {j} : cyc'[k] = cyc[k]
      ]_vars

\* a login was refused while messages were unseen
C19_Witness ==
    \E j \in JobIds :
        /\ cyc[j].pc = "ret" /\ cyc[j].out = "AuthError"
        /\ cyc[j].sent = <<>>
        /\ \E m \in Msgs : ~seen[m]

\* C20: every message a cycle sends goes to the configured chat, and every
\* scheduled timer has that chat as its context and as its name.
C20_OnlyConfiguredChat ==
    /\ \A j \in JobIds : \A i \in 1..Len(cyc[j].sent) :
          cyc[j].sent[i].to = storage.chat
    /\ \A job \in jobs :
          job.context = storage.chat /\ job.name = ChatName[storage.chat]
    /\ \A chat \in Chats \ {storage.chat} : TimersOf(chat, jobs) = {}

\* another chat's command went unanswered while a cycle had sent a body and
\* a status to the configured chat
C20_Witness ==
    /\ reply = NoReply
    /\ \E j \in JobIds : \E i \in 1..Len(cyc[j].sent) :
          cyc[j].sent[i].text.kind = "text"
    /\ \E j \in JobIds : \E i \in 1..Len(cyc[j].sent) :
          cyc[j].sent[i].text.kind = "NO"

-----------------------------------------------------------------------------
(* Cancellation, failure and retry.                                        *)

InFlight(j) == cyc[j].pc \in {"scan", "loop"}

\* C13: a command that cancels a timer (an /unset, or a /set that replaces
\* it) takes the timer off the queue and leaves every cycle as it is; a
\* cycle only ever starts for a job that is scheduled; and a cycle in flight
\* for a job that is no longer scheduled goes on to its end, where its
\* session has been closed and logged out.
C13_CancelStopsFutureOnly ==
    /\ [][ /\ \A chat \in Chats :
                 (ChatFilter(chat) /\ (\/ CmdUnset(chat)
                                       \/ \E args \in NaturalArgs : CmdSet(chat, args))) =>
                     /\ TimersOf(chat, jobs) \cap jobs' = {}
                     /\ cyc' = cyc
            /\ \A j \in JobIds :
                 (cyc[j].pc = "idle" /\ cyc'[j].pc # "idle") => Scheduled(j)
          ]_vars
    /\ [](\A j \in JobIds :
            (cyc[j].pc = "ret" /\ ~Scheduled(j) /\ cyc[j].out \notin OpenFailures) =>
                /\ cyc[j].conn = "LOGOUT"
                /\ Len(cyc[j].rel) = 2
                /\ cyc[j].rel[1].op = "close" /\ cyc[j].rel[2] = [op |-> "logout", ok |-> TRUE])
    /\ \A j \in JobIds :
          (InFlight(j) /\ ~Scheduled(j)) ~> (cyc[j].pc = "ret")

\* a timer was cancelled while its cycle was in flight, and the cycle has
\* gone on to forward a message and release its session
C13_Witness ==
    /\ jobs = {}
    /\ reply = CancelledText
    /\ \E j \in JobIds :
          /\ cyc[j].pc = "ret" /\ cyc[j].out = "ok" /\ Len(cyc[j].sent) >= 1
          /\ cyc[j].rel = release("SELECTED")

CycleFailures == OpenFailures \cup {"ImapError", "KeyError", "TelegramError"}

\* C18: no step of a cycle changes the queue or the settings, whatever the
\* cycle's outcome; a step that changes the queue is an accepted /set or
\* /unset; and when a cycle that failed (in the opening, the selection, the
\* lookup of text/plain or the send) has returned, its job, if it was
\* scheduled, is scheduled still and idle, which is all the queue asks
\* before it runs the job again.
C18_CycleLeavesRegistry ==
    [][ /\ cyc' # cyc => UNCHANGED <<storage, jobs>>
        /\ storage' = storage
        /\ jobs' # jobs =>
              \E chat \in Chats :
                  /\ ChatFilter(chat)
                  /\ CmdUnset(chat) \/ \E args \in NaturalArgs : CmdSet(chat, args)
        /\ \A j \in JobIds :
              (Return(j) /\ cyc[j].out \in CycleFailures /\ Scheduled(j)) =>
                  /\ JobOf(j) \in jobs'
                  /\ cyc'[j].pc = "idle"
      ]_vars

\* a send failed in a cycle whose timer is scheduled still, while the other
\* cycle had failed on a message without text/plain
C18_Witness ==
    /\ \E j \in JobIds :
          cyc[j].pc = "ret" /\ cyc[j].out = "TelegramError" /\ Scheduled(j)
    /\ \E j \in JobIds : cyc[j].pc = "ret" /\ cyc[j].out = "KeyError"

\* cycle j has ended on a message without text/plain, and m came after that
\* message in the sequence of its search
Followed(j, m) ==
    /\ cyc[j].pc = "ret" /\ cyc[j].out = "KeyError"
    /\ \E i \in (Len(cyc[j].fetched) + 1)..Len(cyc[j].ids) : cyc[j].ids[i] = m

\* the mailbox has refused something: an opening, a selection or a search
MailboxFailed ==
    \E k \in JobIds :
        cyc[k].out \in OpenFailures \cup {"ImapError"} \/ cyc[k].result = "NO"

\* C17: when a cycle has ended on a message without text/plain, every
\* message that followed it in the sequence, is unseen still and has a
\* text/plain part is eventually forwarded, unless the cycle's timer leaves
\* the queue or the mailbox refuses an opening, a selection or a search.
C17_FollowersForwarded ==
    \A j \in JobIds, m \in Msgs :
        (Followed(j, m) /\ ~seen[m] /\ ~NoPlain(m) /\ Scheduled(j))
            ~> (fwd[m] > 0 \/ ~Scheduled(j) \/ MailboxFailed)

-----------------------------------------------------------------------------
(* The folder prompt.                                                      *)

\* the numbers the prompt listed
ListedNumbers ==
    IF boot.listing.result = "OK" THEN DOMAIN boot.listing.lines ELSE {}

\* C15: once a line has been typed at the folder prompt, the folder is the
\* listed folder of that number if the line is a listed number and "INBOX"
\* for every other line, a number out of range or no number at all; the
\* session of the listing has been released, and main() goes on to poll.
C15_PromptDefaultsToInbox ==
    (boot.asked /\ boot.pc \in {"ret", "polling", "crashed"}) =>
        LET n == ParseInt(boot.line) IN
        /\ storage.folder =
              IF n.err = "none" /\ n.val \in ListedNumbers
              THEN boot.listing.lines[n.val].name
              ELSE "INBOX"
        /\ boot.rel = <<[op |-> "close", ok |-> FALSE], [op |-> "logout", ok |-> TRUE]>>
        /\ boot.pc # "crashed"

=============================================================================
